---- MODULE Spec2Model ----
(***************************************************************************)
(* Model of the search engine of src/game_agent.py: CustomPlayer.get_move  *)
(* (iterative-deepening / fixed-depth driver), CustomPlayer.minimax,       *)
(* CustomPlayer.alphabeta with alphabeta_max / alphabeta_min, and the      *)
(* Timeout raised by the time check.                                       *)
(*                                                                         *)
(* The board (isolation.Board) is an external collaborator: a game state   *)
(* is a finite tree node [moves, kids, score, loc] where moves is the      *)
(* ordered list returned by get_legal_moves(), kids[i] is                  *)
(* forecast_move(moves[i]), score is the value of self.score(game, self)   *)
(* and loc is get_player_location(self).                                   *)
(***************************************************************************)
EXTENDS Integers, Sequences, FiniteSets, TLC

\* ---------------------------------------------------------------- bounds
MaxScore == 2
MaxTicks == 8
MaxDepth == 3

\* ------------------------------------------------------------- constants
TIMER_THRESHOLD == 10
DefaultDepth == 3
NegInf == -1000
PosInf == 1000

NoMove == <<-1, -1>>
Placeholder == <<0, 0>>
Unbound == <<-9, -9>>
None == [st |-> "none"]

\* --------------------------------------------------- the game-state provider
RootLoc == <<0, 0>>
MoveA == <<0, 1>>
MoveB == <<1, 0>>
MoveC == <<0, 2>>
MoveD == <<1, 1>>
MoveE == <<2, 0>>

Scores == 1..MaxScore

\* a state without legal moves; the default evaluation function custom_score
\* (the number of legal moves) gives it 0
Terminal(loc) == [moves |-> <<>>, kids |-> <<>>, score |-> 0, loc |-> loc]

RootMoveLists == {<<>>, <<MoveA>>, <<MoveA, MoveB>>, <<MoveB, MoveA>>}
OppMoveLists == {<<>>, <<MoveC>>, <<MoveC, MoveD>>}

ScoresFor(ml, S) == IF ml = <<>> THEN {0} ELSE S

\* states two plies below the root: the searching player is to move again
L2Nodes(loc, S) ==
    {Terminal(loc)} \cup
    {[moves |-> <<MoveE>>, kids |-> <<Terminal(MoveE)>>, score |-> s, loc |-> loc] :
        s \in S}

\* states one ply below the root: the opponent is to move, the searching
\* player stands on the cell it has just moved to
L1Nodes(loc, S) ==
    UNION {{[moves |-> ml, kids |-> k, score |-> s, loc |-> loc] :
                k \in [1..Len(ml) -> L2Nodes(loc, S)], s \in ScoresFor(ml, S)} :
           ml \in OppMoveLists}

RootKids(ml, S) ==
    {k \in [1..Len(ml) -> UNION {L1Nodes(m, S) : m \in {MoveA, MoveB}}] :
        \A i \in 1..Len(ml) : k[i].loc = ml[i]}

\* the root states whose evaluation values are drawn from S; the root itself is
\* evaluated only by a search of depth <= 0 and gets custom_score's value
GamesOver(S) ==
    UNION {{[moves |-> ml, kids |-> k, score |-> Len(ml), loc |-> RootLoc] :
                k \in RootKids(ml, S)} :
           ml \in RootMoveLists}

Games == GamesOver(Scores)

\* every tree shape, with a single evaluation value
ShapeGames == GamesOver({1})

\* ------------------------------------------------ Python tuple comparison
MoveLess(m, n) == m[1] < n[1] \/ (m[1] = n[1] /\ m[2] < n[2])
PairLess(p, q) == p[1] < q[1] \/ (p[1] = q[1] /\ MoveLess(p[2], q[2]))
PyMax(a, b) == IF PairLess(a, b) THEN b ELSE a
PyMin(a, b) == IF PairLess(b, a) THEN b ELSE a
NumMax(a, b) == IF b > a THEN b ELSE a
NumMin(a, b) == IF b < a THEN b ELSE a

\* ---------------------------------------------------------- the time check
TimeGuardRaises(t) == t < TIMER_THRESHOLD
Tick(t) == t - 1

\* the value of F at the value of x, with x evaluated once
Bind(x, F(_)) == CHOOSE y \in {F(v) : v \in {x}} : TRUE

\* ------------------------------------------------------------------ minimax
RECURSIVE Minimax(_, _, _, _)
RECURSIVE MinimaxLoop(_, _, _, _, _)

UpdateBestWrongOptimizer(best_score, score, lm, maximizing_player) ==
    LET b == IF maximizing_player THEN PyMin(best_score, score)
                                  ELSE PyMax(best_score, score)
    IN IF b = score THEN <<b[1], lm>> ELSE b

UpdateBest(best_score, score, lm, maximizing_player) ==
    LET b == IF maximizing_player THEN PyMax(best_score, score)
                                  ELSE PyMin(best_score, score)
    IN IF b = score THEN <<b[1], lm>> ELSE b

ChildFlag(maximizing_player) == maximizing_player

MinimaxLoopSwallow(game, depth, maximizing_player, i, acc) ==
    IF i > Len(game.moves) THEN acc
    ELSE Bind(Minimax(game.kids[i], depth - 1, ChildFlag(maximizing_player), acc.t),
         LAMBDA r :
            IF r.st # "ok"
            THEN [acc EXCEPT !.t = r.t, !.q = acc.q + r.q, !.ev = acc.ev + r.ev,
                             !.vis = acc.vis + r.vis, !.raised = TRUE]
            ELSE MinimaxLoop(game, depth, maximizing_player, i + 1,
                    [acc EXCEPT !.val = UpdateBest(acc.val, r.val, game.moves[i],
                                                   maximizing_player),
                                !.t = r.t, !.q = acc.q + r.q, !.ev = acc.ev + r.ev,
                                !.vis = acc.vis + r.vis,
                                !.raised = acc.raised \/ r.raised]))

MinimaxLoop(game, depth, maximizing_player, i, acc) ==
    IF i > Len(game.moves) THEN acc
    ELSE Bind(Minimax(game.kids[i], depth - 1, ChildFlag(maximizing_player), acc.t),
         LAMBDA r :
            IF r.st # "ok"
            THEN [r EXCEPT !.q = acc.q + r.q, !.ev = acc.ev + r.ev,
                           !.vis = acc.vis + r.vis]
            ELSE MinimaxLoop(game, depth, maximizing_player, i + 1,
                    [acc EXCEPT !.val = UpdateBest(acc.val, r.val, game.moves[i],
                                                   maximizing_player),
                                !.t = r.t, !.q = acc.q + r.q, !.ev = acc.ev + r.ev,
                                !.vis = acc.vis + r.vis,
                                !.raised = acc.raised \/ r.raised]))

Minimax(game, depth, maximizing_player, t) ==
    IF TimeGuardRaises(t)
    THEN [st |-> "timeout", val |-> <<0, NoMove>>, t |-> Tick(t),
          q |-> 1, ev |-> 0, vis |-> 1, raised |-> TRUE]
    ELSE IF Len(game.moves) < 1
    THEN [st |-> "ok", val |-> <<0, NoMove>>, t |-> Tick(t),
          q |-> 1, ev |-> 0, vis |-> 1, raised |-> FALSE]
    ELSE IF depth <= 0
    THEN [st |-> "ok", val |-> <<game.score, game.loc>>, t |-> Tick(t),
          q |-> 1, ev |-> 1, vis |-> 1, raised |-> FALSE]
    ELSE MinimaxLoop(game, depth, maximizing_player, 1,
            [st |-> "ok",
             val |-> <<IF maximizing_player THEN NegInf ELSE PosInf, Placeholder>>,
             t |-> Tick(t), q |-> 1, ev |-> 0, vis |-> 1, raised |-> FALSE])

\* ---------------------------------------------------------------- alphabeta
RECURSIVE AlphabetaMax(_, _, _, _)
RECURSIVE AlphabetaMin(_, _, _, _)
RECURSIVE AlphabetaMaxLoop(_, _, _, _, _, _)
RECURSIVE AlphabetaMinLoop(_, _, _, _, _, _)

\* `return (best_score, best_move)`: best_move is a local that is bound only
\* inside the loop, reading it unbound raises UnboundLocalError
ReturnBest(acc) ==
    IF acc.val[2] = Unbound THEN [acc EXCEPT !.st = "error"] ELSE acc

AlphabetaMaxLoop(game, depth, alpha, beta, i, acc) ==
    IF i > Len(game.moves) THEN ReturnBest(acc)
    ELSE LET r == AlphabetaMin(game.kids[i], depth - 1, alpha, beta)
             score == r.val[1]
             best == IF score > acc.val[1] THEN <<score, game.moves[i]>> ELSE acc.val
             acc2 == [acc EXCEPT !.val = best, !.ev = acc.ev + r.ev,
                                 !.vis = acc.vis + r.vis]
         IN IF r.st # "ok"
            THEN [r EXCEPT !.ev = acc.ev + r.ev, !.vis = acc.vis + r.vis]
            ELSE IF best[1] >= beta THEN ReturnBest(acc2)
            ELSE AlphabetaMaxLoop(game, depth, NumMax(alpha, best[1]), beta, i + 1, acc2)

AlphabetaMinLoop(game, depth, alpha, beta, i, acc) ==
    IF i > Len(game.moves) THEN ReturnBest(acc)
    ELSE LET r == AlphabetaMax(game.kids[i], depth - 1, alpha, beta)
             score == r.val[1]
             best == IF score < acc.val[1] THEN <<score, game.moves[i]>> ELSE acc.val
             acc2 == [acc EXCEPT !.val = best, !.ev = acc.ev + r.ev,
                                 !.vis = acc.vis + r.vis]
         IN IF r.st # "ok"
            THEN [r EXCEPT !.ev = acc.ev + r.ev, !.vis = acc.vis + r.vis]
            ELSE IF best[1] <= alpha THEN ReturnBest(acc2)
            ELSE AlphabetaMinLoop(game, depth, alpha, NumMin(beta, best[1]), i + 1, acc2)

AlphabetaMax(game, depth, alpha, beta) ==
    IF depth <= 0
    THEN [st |-> "ok", val |-> <<game.score, game.loc>>, ev |-> 1, vis |-> 1]
    ELSE AlphabetaMaxLoop(game, depth, alpha, beta, 1,
            [st |-> "ok", val |-> <<NegInf, Unbound>>, ev |-> 0, vis |-> 1])

AlphabetaMin(game, depth, alpha, beta) ==
    IF depth <= 0
    THEN [st |-> "ok", val |-> <<game.score, game.loc>>, ev |-> 1, vis |-> 1]
    ELSE AlphabetaMinLoop(game, depth, alpha, beta, 1,
            [st |-> "ok", val |-> <<PosInf, Unbound>>, ev |-> 0, vis |-> 1])

Alphabeta(game, depth, alpha, beta, maximizing_player, t) ==
    IF TimeGuardRaises(t)
    THEN [st |-> "timeout", val |-> <<0, NoMove>>, t |-> Tick(t),
          q |-> 1, ev |-> 0, vis |-> 1, raised |-> TRUE]
    ELSE LET r == IF maximizing_player THEN AlphabetaMax(game, depth, alpha, beta)
                                       ELSE AlphabetaMin(game, depth, alpha, beta)
         IN [st |-> r.st, val |-> r.val, t |-> Tick(t),
             q |-> 1, ev |-> r.ev, vis |-> r.vis, raised |-> FALSE]

\* -------------------------------------------------------------------- state
VARIABLES
    game,          \* the board handed to get_move / to the search
    iterative,     \* self.iterative
    method,        \* self.method
    search_depth,  \* self.search_depth
    clock,         \* the value the next call of self.time_left() returns
    pc,            \* position in get_move, or of the direct caller of a search
    best_move,     \* get_move's local (score, move) pair
    iterator,      \* get_move's local depth counter
    called,        \* the search methods get_move has invoked
    raised,        \* a Timeout has been raised during this get_move
    returned,      \* the value get_move returned
    last,          \* outcome of the latest search call made by get_move
    arg,           \* (depth, maximizing_player) of a direct search call
    outMM,         \* result of a direct call of minimax
    outAB          \* result of a direct call of alphabeta

vars == <<game, iterative, method, search_depth, clock, pc, best_move, iterator,
          called, raised, returned, last, arg, outMM, outAB>>

Clocks == (TIMER_THRESHOLD - 1)..(TIMER_THRESHOLD + MaxTicks)

InitBest == <<NegInf, NoMove>>

\* ------------------------------------------------------- get_move (driver)
Init ==
    /\ game \in Games
    /\ iterative \in BOOLEAN
    /\ method \in {"minimax", "alphabeta"}
    /\ search_depth \in (IF iterative THEN {DefaultDepth} ELSE 0..MaxDepth)
    /\ clock \in Clocks
    /\ pc = "start"
    /\ best_move = InitBest
    /\ iterator = 0
    /\ called = {}
    /\ raised = FALSE
    /\ returned = None
    /\ last = None
    /\ arg = None
    /\ outMM = None
    /\ outAB = None

NextDepthSkip(it) == it + 2

NextDepth(it) == it + 1

GetMoveEnter ==
    /\ pc = "start"
    /\ best_move' = InitBest
    /\ IF iterative THEN iterator' = 1 /\ pc' = "loop"
                    ELSE iterator' = iterator /\ pc' = "fixed"
    /\ UNCHANGED <<game, iterative, method, search_depth, clock, called, raised,
                   returned, last, arg, outMM, outAB>>

IterationStep ==
    /\ pc = "loop"
    /\ \E r \in {Minimax(game, iterator, TRUE, clock)} :
          /\ clock' = r.t
          /\ called' = called \cup {"minimax"}
          /\ raised' = (raised \/ r.raised)
          /\ last' = [st |-> r.st, q |-> r.q, depth |-> iterator]
          /\ IF r.st = "timeout"
             THEN pc' = "return" /\ UNCHANGED <<best_move, iterator>>
             ELSE /\ best_move' = PyMax(best_move, r.val)
                  /\ iterator' = NextDepth(iterator)
                  /\ pc' = "loop"
    /\ UNCHANGED <<game, iterative, method, search_depth, returned, arg, outMM, outAB>>

FixedStep ==
    /\ pc = "fixed"
    /\ IF game.moves # <<>>
       THEN \E r \in {Minimax(game, search_depth, TRUE, clock)} :
               /\ clock' = r.t
               /\ called' = called \cup {"minimax"}
               /\ raised' = (raised \/ r.raised)
               /\ last' = [st |-> r.st, q |-> r.q, depth |-> search_depth]
               /\ best_move' = IF r.st = "timeout" THEN best_move ELSE r.val
       ELSE UNCHANGED <<clock, called, raised, last, best_move>>
    /\ pc' = "return"
    /\ UNCHANGED <<game, iterative, method, search_depth, iterator, returned, arg,
                   outMM, outAB>>

Return ==
    /\ pc = "return"
    /\ returned' = best_move[2]
    /\ pc' = "done"
    /\ UNCHANGED <<game, iterative, method, search_depth, clock, best_move, iterator,
                   called, raised, last, arg, outMM, outAB>>

Next == GetMoveEnter \/ IterationStep \/ FixedStep \/ Return

Spec == Init /\ [][Next]_vars

\* the same driver over every tree shape; get_move runs to completion once
\* called, nothing else is scheduled
InitShapes == Init /\ game \in ShapeGames

FairSpec == InitShapes /\ [][Next]_vars /\ WF_vars(Next)

\* --------------------------------------- direct calls of the two searches
SearchClocks ==
    {TIMER_THRESHOLD - 1, TIMER_THRESHOLD + 1, TIMER_THRESHOLD + MaxTicks,
     TIMER_THRESHOLD + PosInf}

InitSearch ==
    /\ game \in Games
    /\ arg \in [depth : 0..MaxDepth, maximizing_player : BOOLEAN]
    /\ clock \in SearchClocks
    /\ pc = "idle"
    /\ iterative = TRUE
    /\ method = "minimax"
    /\ search_depth = DefaultDepth
    /\ best_move = InitBest
    /\ iterator = 0
    /\ called = {}
    /\ raised = FALSE
    /\ returned = None
    /\ last = None
    /\ outMM = None
    /\ outAB = None

CallMinimax ==
    /\ pc = "idle"
    /\ outMM = None
    /\ \E r \in {Minimax(game, arg.depth, arg.maximizing_player, clock)} :
          outMM' = r /\ clock' = r.t
    /\ UNCHANGED <<game, iterative, method, search_depth, pc, best_move, iterator,
                   called, raised, returned, last, arg, outAB>>

CallAlphabeta ==
    /\ pc = "idle"
    /\ outAB = None
    /\ \E r \in {Alphabeta(game, arg.depth, NegInf, PosInf, arg.maximizing_player, clock)} :
          outAB' = r /\ clock' = r.t
    /\ UNCHANGED <<game, iterative, method, search_depth, pc, best_move, iterator,
                   called, raised, returned, last, arg, outMM>>

NextSearch == CallMinimax \/ CallAlphabeta

SearchSpec == InitSearch /\ [][NextSearch]_vars

\* ================================================================ properties
Range(f) == {f[i] : i \in DOMAIN f}

NeverCancels == TIMER_THRESHOLD + PosInf

\* a direct fixed-depth search on the same state under a clock that never
\* cancels
DirectFixed(d) == Minimax(game, d, TRUE, NeverCancels).val

\* C1: in iterative mode, when N >= 1 iterations completed before the
\* cancellation, the pair get_move holds at return is the result of a direct
\* fixed-depth search at depth N (the deepest completed iteration).
C1_DeepestCompleted ==
    (pc = "done" /\ iterative /\ iterator >= 2)
        => best_move = DirectFixed(iterator - 1)

\* C2: with a clock that never cancels, alphabeta called at the root with
\* alpha = -inf, beta = +inf, maximizing_player = True returns the score that
\* minimax returns for the same state and depth.
C2_AlphabetaEqualsMinimax ==
    (outMM # None /\ outAB # None /\ arg.maximizing_player
        /\ outMM.st = "ok" /\ outAB.st = "ok")
        => outAB.val[1] = outMM.val[1]

\* C3: at a state with zero legal moves, for every depth and either flag,
\* when the time check does not cancel, minimax and alphabeta both return
\* (0, (-1, -1)) without failing and without calling the evaluation function.
C3_NoLegalMoves ==
    game.moves = <<>> =>
        /\ (outMM # None /\ outMM.st # "timeout")
              => (outMM.st = "ok" /\ outMM.val = <<0, NoMove>> /\ outMM.ev = 0)
        /\ (outAB # None /\ outAB.st # "timeout")
              => (outAB.st = "ok" /\ outAB.val = <<0, NoMove>> /\ outAB.ev = 0)

ChildScore(i) ==
    Minimax(game.kids[i], arg.depth - 1, arg.maximizing_player, NeverCancels).val[1]

FirstOptimal ==
    CHOOSE i \in 1..Len(game.moves) :
        /\ ChildScore(i) = outMM.val[1]
        /\ \A j \in 1..(i - 1) : ChildScore(j) # outMM.val[1]

\* C4: when several legal moves of the searched node reach the node's optimal
\* score, the search returns the one that comes first in the legal-move
\* enumeration order, whatever the coordinates of the moves.
C4_FirstOptimalMove ==
    (outMM # None /\ outMM.st = "ok" /\ arg.maximizing_player /\ arg.depth >= 1
        /\ game.moves # <<>>)
        => outMM.val[2] = game.moves[FirstOptimal]

\* C5: every depth-limited search get_move starts is the one named by
\* self.method.
C5_ConfiguredMethod == called \subseteq {method}

LegalOrSentinel == {NoMove} \cup Range(game.moves)

C7_ReturnsAndDeepens ==
    /\ <>(pc = "done")
    /\ [][/\ (pc = "start" /\ pc' = "loop") => iterator' = 1
          /\ pc = "loop" =>
                \/ pc' = "loop" /\ iterator' = iterator + 1 /\ last'.st = "ok"
                \/ pc' = "return" /\ iterator' = iterator /\ last'.st = "timeout"]_vars

C7_Witness ==
    pc = "done" /\ iterative /\ iterator >= 3 /\ last.st = "timeout"

\* C8: every node visited by minimax and by alphabeta queries the remaining
\* time first: a search makes as many time queries as it enters nodes.
C8_GuardAtEveryNode ==
    /\ outMM # None => outMM.q = outMM.vis
    /\ outAB # None => outAB.q = outAB.vis

RECURSIVE RefMinimax(_, _, _)
RefMinimax(g, d, maximizing) ==
    IF g.moves = <<>> THEN 0
    ELSE IF d <= 0 THEN g.score
    ELSE LET vals == {RefMinimax(g.kids[i], d - 1, ~maximizing) : i \in 1..Len(g.moves)}
         IN IF maximizing THEN CHOOSE v \in vals : \A w \in vals : w <= v
                          ELSE CHOOSE v \in vals : \A w \in vals : v <= w

\* C9: minimax alternates maximizing and minimizing layers, so
\* minimax(state, depth, True) returns the score of a depth-limited zero-sum
\* minimax of the state.
C9_AlternatingLayers ==
    (outMM # None /\ outMM.st = "ok" /\ arg.maximizing_player)
        => outMM.val[1] = RefMinimax(game, arg.depth, TRUE)

\* C10: a search in which a Timeout is raised contributes nothing: get_move
\* goes to its return with best_move as it was when that search started, and
\* when no search completed it returns (-1, -1).
C10_CancelledDiscarded ==
    /\ [][(raised' /\ ~raised) => (pc' = "return" /\ best_move' = best_move)]_vars
    /\ []((pc = "done" /\ raised /\ (iterative => iterator = 1))
            => (best_move = InitBest /\ returned = NoMove))

C10_Witness ==
    /\ pc = "done" /\ raised /\ iterative /\ iterator >= 3
    /\ last.st = "timeout" /\ last.q >= 3
    /\ best_move # InitBest /\ returned = best_move[2]

====
